---- MODULE Spec2Model ----
(***************************************************************************)
(* DynamicStateService (src/dynamic-state.service.ts): a Map of named      *)
(* state values, one Subject that carries the names of updated values,     *)
(* and per-name observables derived from it through                        *)
(* filter / startWith / filter / map / shareReplay({refCount: true}).      *)
(*                                                                         *)
(* One action is one synchronous call on the service (or one subscribe /   *)
(* unsubscribe on an observable it returned); everything the call does     *)
(* synchronously, the deliveries to subscribers included, is part of it.   *)
(***************************************************************************)
EXTENDS Integers, Sequences, FiniteSets

\* ---- bounds of the model
MaxVal == 2          \* storable values are 1..MaxVal
MaxStreams == 2      \* observables returned by stateValue$ that are kept
MaxSubs == 2         \* subscriptions that may be open at once

\* ---- program constants
DefaultBuffer == 1   \* opts = { ...{ buffer: 1 }, ...opts }
Undefined == 0       \* JavaScript undefined: "no value", "option not given"

Names == {"a", "b"}
Values == 1..MaxVal
Buffers == {0, 1, 2}
Subs == 1..MaxSubs
NoStream == Undefined   \* no observable
NoName == "-"

VARIABLES
  store,      \* #stateValue: the Map, a function on the names present
  closed,     \* #stateValueUpdated$ has completed (Subject.isStopped)
  observers,  \* #stateValueUpdated$'s observers: the connected streams
  streams,    \* the observables returned by stateValue$: their closure
  share,      \* shareReplay's state, one record per returned observable
  attached,   \* attached[s]: the stream subscription s is open on
  delta,      \* delta[s]: the values delivered to s by the last call
  done,       \* the subscriptions the last call delivered complete to
  last,       \* the last call: what was called, with what, what came back
  written,    \* written[n]: the value of the last write to n, if any
  prev,       \* prev[s]: distinctUntilChanged's last value of subscription s
  once        \* the observable of stateValueOnce$ the caller has kept

vars == <<store, closed, observers, streams, share, attached, delta, done,
          last, written, prev, once>>

\* ---- the Map
EmptyMap == [x \in {} |-> Undefined]

HasStateValue(st, n) == n \in DOMAIN st

MapGet(st, n) == IF n \in DOMAIN st THEN st[n] ELSE Undefined

MapSet(st, n, v) == [x \in (DOMAIN st) \cup {n} |-> IF x = n THEN v ELSE st[x]]

\* (variant: the entry is not deleted)
MapDeleteNothing(st, n) == st

MapDelete(st, n) == [x \in (DOMAIN st) \ {n} |-> st[x]]

\* (variant: the Map is not cleared)
MapClearNothing(st) == st

\* Map.clear()
MapClear(st) == EmptyMap

\* (variant: a full buffer drops the new value instead of the oldest)
PushKeepOldest(buf, v, size) == IF Len(buf) >= size THEN buf ELSE Append(buf, v)

\* ---- ReplaySubject: the buffer keeps the last `size` values
Push(buf, v, size) ==
  LET b == Append(buf, v)
  IN  IF Len(b) > size THEN SubSeq(b, Len(b) - size + 1, Len(b)) ELSE b

NoDelivery == [s \in Subs |-> <<>>]

\* no observable of stateValueOnce$ is kept
NoOnce == [name |-> NoName, val |-> Undefined]

\* ---- distinctUntilChanged(opts?.distinctFn ?? defaultDistinctFn)
\* Values are identities: a primitive is its own identity, an object is its
\* reference. Content(v) is what a structural comparison looks at: values
\* 2k-1 and 2k are two references to structurally equal objects.
Content(v) == (v + 1) \div 2

\* the comparators: "is" is defaultDistinctFn (Object.is), "deep" a
\* distinctFn given by the caller that compares structure; "none" marks an
\* observable of stateValue$, which has no distinctUntilChanged
DistinctFns == {"is", "deep"}

\* (variant: the default comparator compares structure)
EqualStructural(fn, a, b) == Content(a) = Content(b)

Equal(fn, a, b) == IF fn = "deep" THEN Content(a) = Content(b) ELSE a = b

\* what distinctUntilChanged lets through of vals when p was the last value
\* it let through (Undefined: nothing yet)
RECURSIVE DistinctUntilChanged(_, _, _)
DistinctUntilChanged(fn, p, vals) ==
  IF fn = "none" \/ vals = <<>> THEN vals
  ELSE IF p # Undefined /\ Equal(fn, p, Head(vals))
         THEN DistinctUntilChanged(fn, p, Tail(vals))
         ELSE <<Head(vals)>> \o DistinctUntilChanged(fn, Head(vals), Tail(vals))

\* distinctUntilChanged's state after it let vals through
PrevAfterValues(fn, p, vals) ==
  IF fn = "none" \/ vals = <<>> THEN p ELSE vals[Len(vals)]

FreshShare ==
  [subject |-> FALSE, buf |-> <<>>, connection |-> FALSE, refCount |-> 0,
   hasCompleted |-> FALSE]

\* val: the value or initialValue passed; buffer: the buffer option in effect;
\* d: the observable returned or subscribed; s: the subscription;
\* ret, flag: what a read returned; threw: the call threw;
\* replayed: how many of delta[s] came out of the replay buffer
Call(op, n, v, d, s) ==
  [op |-> op, name |-> n, val |-> v, buffer |-> DefaultBuffer, d |-> d, s |-> s,
   ret |-> Undefined, flag |-> FALSE, threw |-> FALSE, replayed |-> 0]

Init ==
  /\ store = EmptyMap
  /\ closed = FALSE
  /\ observers = {}
  /\ streams = <<>>
  /\ share = <<>>
  /\ attached = [s \in Subs |-> NoStream]
  /\ delta = NoDelivery
  /\ done = {}
  /\ last = Call("new", NoName, Undefined, NoStream, 0)
  /\ written = [n \in Names |-> Undefined]
  /\ prev = [s \in Subs |-> Undefined]
  /\ once = NoOnce

\* ---- #stateValueUpdated$.next(name), seen from one returned observable:
\* the Subject is open, the observable is connected, filter(=== name) and
\* filter(hasStateValue) pass
\* (variant: the trigger is not filtered by name)
MatchesAny(d, n) == TRUE

\* filter((key) => key === name)
Matches(d, n) == streams[d].name = n

\* (variant: filter(hasStateValue) sees the Map as it was before the write)
HearsBeforeWrite(st, d, n) ==
  /\ ~closed
  /\ d \in observers
  /\ Matches(d, n)
  /\ HasStateValue(store, streams[d].name)

Hears(st, d, n) ==
  /\ ~closed
  /\ d \in observers
  /\ Matches(d, n)
  /\ HasStateValue(st, streams[d].name)

\* (variant: the value is captured before the write instead of read afterwards)
EmittedCaptured(st, d) == MapGet(store, streams[d].name)

\* map(() => this.stateValue(name)): the value is read when the trigger passes
Emitted(st, d) == MapGet(st, streams[d].name)

\* share after #stateValueUpdated$.next(n) with the Map being st
ShareAfterNext(st, n) ==
  [d \in DOMAIN share |->
     IF Hears(st, d, n)
       THEN [share[d] EXCEPT !.buf = Push(@, Emitted(st, d), streams[d].buffer)]
       ELSE share[d]]

\* (variant: a write of the value already held is not notified)
DeltaIfChanged(st, n) ==
  [s \in Subs |->
     IF /\ attached[s] # NoStream
        /\ Hears(st, attached[s], n)
        /\ MapGet(st, n) # MapGet(store, n)
       THEN <<Emitted(st, attached[s])>>
       ELSE <<>>]

DeltaAfterNext(st, n) ==
  [s \in Subs |->
     IF attached[s] # NoStream /\ Hears(st, attached[s], n)
       THEN <<Emitted(st, attached[s])>>
       ELSE <<>>]

\* what the subscribers are handed of raw, the emissions of the shared
\* observables: a subscription of stateValueDistinct$ has its own
\* distinctUntilChanged between the shared observable and the handler
DistinctFnOf(s) ==
  IF attached[s] = NoStream THEN "none" ELSE streams[attached[s]].distinctFn

Delivered(raw) ==
  [s \in Subs |-> DistinctUntilChanged(DistinctFnOf(s), prev[s], raw[s])]

PrevAfter(raw) ==
  [s \in Subs |-> PrevAfterValues(DistinctFnOf(s), prev[s], Delivered(raw)[s])]

\* the history of writes: the value last written to n
WrittenAfter(n, v) == [written EXCEPT ![n] = v]

\* a write makes every stream of the name stop being "quiet"
QuietAfterWrite(n) ==
  [d \in DOMAIN streams |->
     IF streams[d].name = n THEN [streams[d] EXCEPT !.quiet = FALSE] ELSE streams[d]]

\* ---- stateValue(name, value) with a value: Map.set, then Subject.next
StateValueWrite(n, v) ==
  /\ store' = MapSet(store, n, v)
  /\ share' = ShareAfterNext(store', n)
  /\ delta' = Delivered(DeltaAfterNext(store', n))
  /\ prev' = PrevAfter(DeltaAfterNext(store', n))
  /\ done' = {}
  /\ streams' = QuietAfterWrite(n)
  /\ last' = Call("set", n, v, NoStream, 0)
  /\ written' = WrittenAfter(n, v)
  /\ UNCHANGED <<closed, observers, attached, once>>

\* ---- stateValue(name) without a value, which is also the call
\* stateValue(name, undefined): the test of line 43 sees undefined in both and
\* returns Map.get, nothing else
StateValueRead(n) ==
  /\ last' = [Call("get", n, Undefined, NoStream, 0)
                EXCEPT !.ret = MapGet(store, n)]
  /\ delta' = NoDelivery
  /\ done' = {}
  /\ UNCHANGED <<store, closed, observers, streams, share, attached, written,
                 prev, once>>

\* ---- stateValueOnce$(name): of(this.stateValue(name))
StateValueOnce(n) ==
  /\ last' = [Call("once", n, Undefined, NoStream, 0)
                EXCEPT !.ret = MapGet(store, n)]
  /\ delta' = NoDelivery
  /\ done' = {}
  /\ UNCHANGED <<store, closed, observers, streams, share, attached, written,
                 prev, once>>

\* ---- hasStateValue(name)
HasStateValueCall(n) ==
  /\ last' = [Call("has", n, Undefined, NoStream, 0)
                EXCEPT !.flag = HasStateValue(store, n)]
  /\ delta' = NoDelivery
  /\ done' = {}
  /\ UNCHANGED <<store, closed, observers, streams, share, attached, written,
                 prev, once>>

\* ---- removeStateValue(name): Map.delete, no next()
RemoveStateValue(n) ==
  /\ store' = MapDelete(store, n)
  /\ last' = Call("remove", n, Undefined, NoStream, 0)
  /\ delta' = NoDelivery
  /\ done' = {}
  /\ UNCHANGED <<closed, observers, streams, share, attached, written,
                 prev, once>>

\* ---- clearStateValues(): Map.clear, no next()
ClearStateValues ==
  /\ store' = MapClear(store)
  /\ last' = Call("clear", NoName, Undefined, NoStream, 0)
  /\ delta' = NoDelivery
  /\ done' = {}
  /\ UNCHANGED <<closed, observers, streams, share, attached, written,
                 prev, once>>

\* ---- stateValue$(name, opts)
\* the buffer option: { ...{ buffer: 1 }, ...opts }
OptBuffer(given, b) == IF given THEN b ELSE DefaultBuffer

\* (variant: the initial value is never written)
SeedNever(n, iv) == FALSE

\* (variant: an absent name is seeded whether or not a value was given)
SeedUndefined(n, iv) == ~HasStateValue(store, n)

\* (variant: the initial value is written whether or not the name is present)
SeedAlways(n, iv) == iv # Undefined

\* opts.initialValue !== undefined && !this.#stateValue.has(name)
SeedNeeded(n, iv) == iv # Undefined /\ ~HasStateValue(store, n)

\* opts.buffer ? shareReplay(...) : undefined; pipe() calls each of its
\* arguments, so an undefined last argument makes the call throw a TypeError
PipeThrows(buffer) == buffer = 0

\* (fn "none": stateValue$ itself; otherwise stateValueDistinct$, which
\* pipes the observable of stateValue$(name, opts) into distinctUntilChanged)
MakeStream(n, given, b, iv, fn) ==
  LET buffer == OptBuffer(given, b)
      seed == SeedNeeded(n, iv)
      st1 == IF seed THEN MapSet(store, n, iv) ELSE store
      share1 == IF seed THEN ShareAfterNext(st1, n) ELSE share
      streams1 == IF seed THEN QuietAfterWrite(n) ELSE streams
      made == ~PipeThrows(buffer)
      call == Call("stream", n, iv, IF made THEN Len(streams) + 1 ELSE NoStream, 0)
  IN  /\ given \/ b = DefaultBuffer
      /\ made => Len(streams) < MaxStreams
      /\ store' = st1
      /\ delta' = (IF seed THEN Delivered(DeltaAfterNext(st1, n))
                              ELSE NoDelivery)
      /\ prev' = (IF seed THEN PrevAfter(DeltaAfterNext(st1, n)) ELSE prev)
      /\ done' = {}
      /\ streams' = (IF made
                       THEN Append(streams1,
                              [name |-> n, buffer |-> buffer, distinctFn |-> fn,
                               quiet |-> iv = Undefined /\ ~HasStateValue(store, n)])
                       ELSE streams1)
      /\ share' = (IF made THEN Append(share1, FreshShare) ELSE share1)
      /\ last' = [call EXCEPT !.threw = PipeThrows(buffer), !.buffer = buffer]
      /\ written' = (IF seed THEN WrittenAfter(n, iv) ELSE written)
      /\ UNCHANGED <<closed, observers, attached, once>>

StateValueStream(n, given, b, iv) == MakeStream(n, given, b, iv, "none")

\* ---- stateValueDistinct$(name, opts)
StateValueDistinct(n, given, b, iv, fn) == MakeStream(n, given, b, iv, fn)

\* ---- subscribe to a returned observable (share's operate callback)
\* ReplaySubject._subscribe: the buffer is replayed to the new subscriber
Replayed(sh) == IF sh.subject THEN sh.buf ELSE <<>>

\* (variant: the "check now" trigger is not filtered by hasStateValue)
StartWithUnfiltered(d) == <<Emitted(store, d)>>

\* startWith(name), filter(hasStateValue), map(read): the "check now" trigger
StartWith(d) ==
  IF HasStateValue(store, streams[d].name) THEN <<Emitted(store, d)>> ELSE <<>>

\* (subscriptions are numbered in the order they are opened: the lowest free
\* number is taken)
Subscribe(s, d) ==
  LET sh == share[d]
      replay == Replayed(sh)
      \* dest.subscribe(subscriber): a completed subject completes it at once,
      \* and its finalizer takes the reference back
      ended == sh.subject /\ sh.hasCompleted
      refCount1 == IF ended THEN sh.refCount ELSE sh.refCount + 1
      connect == ~sh.connection /\ refCount1 > 0
      first == IF connect THEN StartWith(d) ELSE <<>>
      \* the source completes at once when the Subject has completed
      completes == connect /\ closed
      buf1 == IF connect /\ first # <<>>
                THEN Push(replay, first[1], streams[d].buffer) ELSE replay
      \* a new subscription starts a new distinctUntilChanged
      handed == DistinctUntilChanged(streams[d].distinctFn, Undefined,
                                     replay \o first)
  IN  /\ attached[s] = NoStream
      /\ \A r \in Subs : r < s => attached[r] # NoStream
      /\ d \in DOMAIN streams
      /\ share' = [share EXCEPT ![d] =
                     [subject |-> TRUE, buf |-> buf1,
                      connection |-> sh.connection \/ connect,
                      refCount |-> IF completes THEN refCount1 - 1 ELSE refCount1,
                      hasCompleted |-> sh.hasCompleted \/ completes]]
      /\ observers' = (IF connect /\ ~closed THEN observers \cup {d} ELSE observers)
      /\ attached' = (IF ended \/ completes THEN attached
                        ELSE [attached EXCEPT ![s] = d])
      /\ delta' = [NoDelivery EXCEPT ![s] = handed]
      /\ prev' = [prev EXCEPT ![s] =
                    IF ended \/ completes THEN Undefined
                      ELSE PrevAfterValues(streams[d].distinctFn, Undefined, handed)]
      /\ done' = (IF ended \/ completes THEN {s} ELSE {})
      /\ last' = [Call("subscribe", streams[d].name, Undefined, d, s)
                    EXCEPT !.replayed = Len(replay)]
      /\ UNCHANGED <<store, closed, streams, written, once>>

\* ---- unsubscribe: refCount--, and at 0 resetOnRefCountZero drops the
\* subject and the connection to the Subject
\* (variant: refCount false, the connection is kept without subscribers)
NeverReset(sh) == FALSE

\* share's resetOnRefCountZero, reached when the last subscriber leaves a
\* stream that has not completed
ResetOnRefCountZero(sh) == sh.refCount - 1 = 0 /\ ~sh.hasCompleted

Unsubscribe(s) ==
  LET d == attached[s]
      sh == share[d]
      reset == ResetOnRefCountZero(sh)
  IN  /\ d # NoStream
      /\ attached' = [attached EXCEPT ![s] = NoStream]
      /\ share' = [share EXCEPT ![d] =
                     IF reset THEN FreshShare
                       ELSE [sh EXCEPT !.refCount = sh.refCount - 1]]
      /\ observers' = (IF reset THEN observers \ {d} ELSE observers)
      /\ prev' = [prev EXCEPT ![s] = Undefined]
      /\ delta' = NoDelivery
      /\ done' = {}
      /\ last' = Call("unsubscribe", streams[d].name, Undefined, d, s)
      /\ UNCHANGED <<store, closed, streams, written, once>>

\* ---- the DestroyRef.onDestroy callback: Subject.complete(), Map.clear()
Completing(d) == ~closed /\ d \in observers

OnDestroy ==
  /\ closed' = TRUE
  /\ observers' = {}
  /\ share' = [d \in DOMAIN share |->
                 IF Completing(d)
                   THEN [share[d] EXCEPT !.hasCompleted = TRUE, !.refCount = 0]
                   ELSE share[d]]
  /\ done' = {s \in Subs : attached[s] # NoStream /\ Completing(attached[s])}
  /\ attached' = [s \in Subs |->
                    IF attached[s] # NoStream /\ Completing(attached[s])
                      THEN NoStream ELSE attached[s]]
  /\ prev' = [s \in Subs |-> IF attached'[s] = NoStream THEN Undefined ELSE prev[s]]
  /\ store' = MapClear(store)
  /\ delta' = NoDelivery
  \* (flag: the Subject was already closed when the callback ran)
  /\ last' = [Call("destroy", NoName, Undefined, NoStream, 0)
                EXCEPT !.flag = closed]
  /\ UNCHANGED <<streams, written, once>>

Next ==
  \/ \E n \in Names, v \in Values : StateValueWrite(n, v)
  \/ \E n \in Names : StateValueRead(n)
  \/ \E n \in Names : StateValueOnce(n)
  \/ \E n \in Names : HasStateValueCall(n)
  \/ \E n \in Names : RemoveStateValue(n)
  \/ ClearStateValues
  \/ \E n \in Names, given \in BOOLEAN, b \in Buffers,
        iv \in Values \cup {Undefined} :
        StateValueStream(n, given, b, iv)
  \/ \E s \in Subs, d \in 1..MaxStreams : Subscribe(s, d)
  \/ \E s \in Subs : Unsubscribe(s)
  \/ OnDestroy

Spec == Init /\ [][Next]_vars

\* ---- the service used through stateValueDistinct$: writes and removes,
\* observables with the default comparator or one given by the caller
NextDistinct ==
  \/ \E n \in Names, v \in Values : StateValueWrite(n, v)
  \/ \E n \in Names : RemoveStateValue(n)
  \/ \E n \in Names, given \in BOOLEAN, b \in Buffers, fn \in DistinctFns :
        StateValueDistinct(n, given, b, Undefined, fn)
  \/ \E s \in Subs, d \in 1..MaxStreams : Subscribe(s, d)
  \/ \E s \in Subs : Unsubscribe(s)

SpecDistinct == Init /\ [][NextDistinct]_vars

\* ---- stateValueOnce$(name) when the caller keeps the observable it
\* returns: of(x) holds x, the value of the argument this.stateValue(name)
\* as evaluated by the call
StateValueOnceKept(n) ==
  /\ once' = [name |-> n, val |-> MapGet(store, n)]
  /\ last' = [Call("once", n, Undefined, NoStream, 0)
                EXCEPT !.ret = MapGet(store, n)]
  /\ delta' = NoDelivery
  /\ done' = {}
  /\ UNCHANGED <<store, closed, observers, streams, share, attached, written,
                 prev>>

\* (variant: the value is read when the observable is subscribed to, as
\* defer(() => of(this.stateValue(name))) would)
OnceValueDeferred(o) == MapGet(store, o.name)

\* the element of(x) emits
OnceValue(o) == o.val

\* ---- subscribe to the kept observable of stateValueOnce$: of(x) emits x
\* (ret) and completes (flag), and can be subscribed to again
OnceSubscribe ==
  /\ once # NoOnce
  /\ last' = [Call("onceSubscribe", once.name, Undefined, NoStream, 0)
                EXCEPT !.ret = OnceValue(once), !.flag = TRUE]
  /\ delta' = NoDelivery
  /\ done' = {}
  /\ UNCHANGED <<store, closed, observers, streams, share, attached, written,
                 prev, once>>

NextOnce ==
  \/ \E n \in Names, v \in Values : StateValueWrite(n, v)
  \/ \E n \in Names : RemoveStateValue(n)
  \/ ClearStateValues
  \/ \E n \in Names : StateValueOnceKept(n)
  \/ OnceSubscribe
  \/ OnDestroy

SpecOnce == Init /\ [][NextOnce]_vars

\* the subscribers attached to observable d
SubscribersOf(d) == {s \in Subs : attached[s] = d}

\* ---- stateValue(n, v1) when the handler of subscription r calls
\* stateValue(n, v2) as it is handed v1. Subject.next hands a value to its
\* observers one after the other, in the order they subscribed, and the inner
\* call runs to its end inside r's handler: the observers served after r are
\* handed v2 by the inner call before the outer call reaches them.
\* (Without unsubscribe the subscriptions are numbered in the order they were
\* opened, and an observable is connected by its lowest subscription.)
StreamFirst(d) ==
  CHOOSE s \in SubscribersOf(d) : \A t \in SubscribersOf(d) : s <= t

\* observable d is served by the outer next() before r's handler runs
ServedBefore(d, r) == StreamFirst(d) <= StreamFirst(attached[r])

\* the two emissions of observable d, in order: map() reads the Map when the
\* trigger passes, which for an observable after r's is after the inner write
EmissionsReentrant(d, r, v1, v2) ==
  IF ServedBefore(d, r) THEN <<v1, v2>> ELSE <<v2, v2>>

\* what subscription s is handed, in order
HandedReentrant(s, r, v1, v2) ==
  IF attached[s] = attached[r]
    THEN IF s <= r THEN <<v1, v2>> ELSE <<v2, v1>>
    ELSE EmissionsReentrant(attached[s], r, v1, v2)

StateValueWriteReentrant(n, v1, r, v2) ==
  LET st1 == MapSet(store, n, v1)
      st2 == MapSet(st1, n, v2)
      raw == [s \in Subs |->
                IF attached[s] # NoStream /\ Hears(st1, attached[s], n)
                  THEN HandedReentrant(s, r, v1, v2) ELSE <<>>]
  IN  /\ v1 # v2
      /\ attached[r] # NoStream
      /\ Hears(st1, attached[r], n)
      /\ store' = st2
      /\ share' = [d \in DOMAIN share |->
                     IF Hears(st1, d, n)
                       THEN LET e == EmissionsReentrant(d, r, v1, v2)
                            IN  [share[d] EXCEPT !.buf =
                                   Push(Push(@, e[1], streams[d].buffer), e[2],
                                        streams[d].buffer)]
                       ELSE share[d]]
      /\ delta' = Delivered(raw)
      /\ prev' = PrevAfter(raw)
      /\ done' = {}
      /\ streams' = QuietAfterWrite(n)
      /\ last' = Call("reenter", n, v1, attached[r], r)
      /\ written' = WrittenAfter(n, v2)
      /\ UNCHANGED <<closed, observers, attached, once>>

NextReentrant ==
  \/ \E n \in Names, v \in Values : StateValueWrite(n, v)
  \/ \E n \in Names : RemoveStateValue(n)
  \/ \E n \in Names, given \in BOOLEAN, b \in Buffers,
        iv \in Values \cup {Undefined} :
        StateValueStream(n, given, b, iv)
  \/ \E s \in Subs, d \in 1..MaxStreams : Subscribe(s, d)
  \/ \E n \in Names, v1 \in Values, r \in Subs, v2 \in Values :
        StateValueWriteReentrant(n, v1, r, v2)

SpecReentrant == Init /\ [][NextReentrant]_vars

\* ======================================================================
\* The claims
\* ======================================================================
OtherName(n) == CHOOSE m \in Names : m # n

\* the observable a delivery of the last call to subscription s came through
DeliveredOn(s) ==
  IF last.op = "subscribe" /\ last.s = s THEN last.d ELSE attached[s]

\* how many of the values delivered to s by the last call were replayed
FromBuffer(s) ==
  IF last.op = "subscribe" /\ last.s = s THEN last.replayed ELSE 0

\* a connected observable of n with buffer 2 that holds two emissions: two
\* writes to n have happened, and the second is the last write so far
TwoWrites(n) ==
  \E d \in DOMAIN streams :
    /\ streams[d].name = n
    /\ streams[d].buffer = 2
    /\ share[d].connection /\ ~share[d].hasCompleted
    /\ Len(share[d].buf) = 2

\* ---- C1: a subscriber of a stream(name) that was created with no
\* initialValue while the name was absent receives nothing as long as no
\* write to the name happens, whatever else is called (C1_Silent); the first
\* write of v to the name delivers exactly v to it, once (C1_First).
C1_Silent ==
  \A d \in DOMAIN streams, s \in Subs :
    streams[d].quiet /\ DeliveredOn(s) = d => delta[s] = <<>>

C1_First ==
  \A d \in DOMAIN streams, s \in Subs :
    streams[d].quiet /\ attached[s] = d /\ ~streams'[d].quiet
      => /\ last'.name = streams[d].name
         /\ delta'[s] = <<last'.val>>
         /\ attached'[s] = d

\* C1: nothing is delivered until the first write to the name, which delivers
\* exactly the written value, once: C1_Silent in every state, C1_First in
\* every step.
C1_NothingUntilFirstSet == []C1_Silent /\ [][C1_First]_vars

C1_Witness ==
  /\ last.op = "set"
  /\ written[OtherName(last.name)] # Undefined
  /\ \E s \in Subs :
       /\ attached[s] # NoStream
       /\ streams[attached[s]].name = last.name
       /\ streams[attached[s]].buffer = 2
       /\ share[attached[s]].buf = <<last.val>>
       /\ delta[s] = <<last.val>>

\* ---- C2 as claimed: every value delivered to a subscriber, the replayed
\* ones included, is the current value of a name that is present.
C2_EveryDeliveryFresh ==
  \A s \in Subs : \A i \in DOMAIN delta[s] :
    /\ HasStateValue(store, streams[DeliveredOn(s)].name)
    /\ delta[s][i] = store[streams[DeliveredOn(s)].name]

\* ---- C2 amended: every value a stream emits, on the "check now" trigger
\* of a new connection or on a notification, is the current value of a name
\* that is present; the values replayed from the buffer on attach are not
\* read again.
C2_EveryEmissionFresh ==
  \A s \in Subs : \A i \in DOMAIN delta[s] :
    i > FromBuffer(s) =>
      /\ HasStateValue(store, streams[DeliveredOn(s)].name)
      /\ delta[s][i] = store[streams[DeliveredOn(s)].name]

C2_Witness ==
  /\ last.op = "set"
  /\ \E s \in Subs :
       /\ attached[s] # NoStream
       /\ streams[attached[s]].name = last.name
       /\ Len(share[attached[s]].buf) = 2
       /\ share[attached[s]].buf[1] # share[attached[s]].buf[2]
       /\ delta[s] = <<store[last.name]>>

\* ---- C3 as claimed: after two writes to a name, the second of v2, a
\* subscriber that attaches to an observable of the name with the default
\* buffer before any further write receives v2 and nothing else.
C3_LateSubscriberGetsLast ==
  last.op = "subscribe" /\ streams[last.d].buffer = DefaultBuffer
    /\ TwoWrites(last.name)
    => delta[last.s] = <<written[last.name]>>

\* ---- C3 amended: the same, provided the name has not been removed or
\* cleared since the last write and the service is not destroyed.
C3_LateSubscriberGetsLastWhilePresent ==
  last.op = "subscribe" /\ streams[last.d].buffer = DefaultBuffer
    /\ written[last.name] # Undefined
    /\ HasStateValue(store, last.name) /\ ~closed
    => delta[last.s] = <<written[last.name]>>

C3_Witness ==
  /\ last.op = "subscribe" /\ streams[last.d].buffer = DefaultBuffer
  /\ TwoWrites(last.name)
  /\ \E d \in DOMAIN streams :
       streams[d].name = last.name /\ share[d].buf = <<1, 2>>
  /\ HasStateValue(store, last.name)
  /\ delta[last.s] = <<2>>

\* ---- C4 as claimed: once the service is destroyed, no name is present and
\* no subscriber is delivered a value, whatever is called afterwards.
C4_NothingAfterDestroy ==
  closed => /\ \A n \in Names : ~HasStateValue(store, n)
            /\ delta = NoDelivery

\* ---- C5 as claimed: once the service is destroyed the Map stays empty,
\* whatever is written, and every read reports absence.
C5_UseAfterDestroyIsNoOp ==
  closed => /\ store = EmptyMap
            /\ last.op \in {"get", "once"} => last.ret = Undefined
            /\ last.op = "has" => ~last.flag

\* ---- C6: stateValue$(name, {initialValue: v1}) with the name present
\* leaves the Map as it is, delivers nothing to anyone, touches no replay
\* buffer, and the returned observable gives a subscriber the value held.
C6_Step ==
  \A n \in Names, d \in 1..MaxStreams :
    last'.op = "stream" /\ last'.name = n /\ last'.val # Undefined
      /\ HasStateValue(store, n)
      => /\ store' = store
         /\ delta' = NoDelivery
         /\ \A e \in DOMAIN share : share'[e] = share[e]
         /\ last'.d = d => StartWith(d)' = <<store[n]>>

\* C6: every step satisfies C6_Step: an initialValue given while the name is
\* present is discarded, silently, and the returned observable reports the
\* value held.
C6_InitialValueOnlyIfAbsent == [][C6_Step]_vars

C6_Witness ==
  /\ last.op = "stream" /\ last.val # Undefined /\ last.d # NoStream
  /\ HasStateValue(store, last.name)
  /\ store[last.name] # last.val
  /\ StartWith(last.d) = <<store[last.name]>>

\* ---- C7: removeStateValue(name) makes the name absent at once and
\* delivers nothing to anyone; an observable of the name made after it (with
\* no initialValue) delivers nothing until the next write to the name.
C7_RemoveIsSilent ==
  /\ last.op = "remove" =>
       /\ ~HasStateValue(store, last.name)
       /\ delta = NoDelivery
       /\ done = {}
  /\ \A d \in DOMAIN streams, s \in Subs :
       streams[d].quiet /\ written[streams[d].name] # Undefined
         /\ DeliveredOn(s) = d
         => delta[s] = <<>>

C7_Witness ==
  /\ last.op = "subscribe"
  /\ streams[last.d].quiet
  /\ written[last.name] # Undefined
  /\ attached[last.s] = last.d
  /\ delta[last.s] = <<>>

\* ---- C8: removeStateValue(name) completes and detaches no subscriber,
\* and the next write of v to the name delivers v to each of them.
C8_Step ==
  /\ last'.op = "remove" =>
       /\ attached' = attached
       /\ done' = {}
       /\ observers' = observers
       /\ share' = share
  /\ \A s \in Subs :
       /\ last'.op = "set"
       /\ attached[s] # NoStream
       /\ streams[attached[s]].name = last'.name
       /\ ~HasStateValue(store, last'.name)
       => /\ delta'[s] = <<last'.val>>
          /\ attached'[s] = attached[s]

\* C8: every step satisfies C8_Step: a remove detaches and completes nobody,
\* and the write that follows it reaches every subscriber still attached.
C8_RemoveKeepsSubscribers == [][C8_Step]_vars

C8_Witness ==
  /\ last.op = "remove"
  /\ ~HasStateValue(store, last.name)
  /\ done = {}
  /\ \A s \in Subs :
       /\ attached[s] # NoStream
       /\ streams[attached[s]].name = last.name
       /\ share[attached[s]].buf # <<>>
       /\ share[attached[s]].refCount > 0

\* ---- C9 as claimed: stateValue$(name, {buffer: 0}) returns an observable.
C9_BufferZeroReturnsStream ==
  last.op = "stream" /\ last.buffer = 0 => ~last.threw

\* ---- C10: before the service is destroyed, stateValue(name, v) leaves v
\* in the Map and has delivered v, once, to every subscriber attached to an
\* observable of the name when it returns, also when v was already held.
C10_SetDeliversToAll ==
  last.op = "set" /\ ~closed =>
    /\ MapGet(store, last.name) = last.val
    /\ \A s \in Subs :
         attached[s] # NoStream /\ streams[attached[s]].name = last.name
           => delta[s] = <<last.val>>

C10_Witness ==
  /\ last.op = "set" /\ ~closed
  /\ \A s \in Subs :
       /\ attached[s] # NoStream
       /\ streams[attached[s]].name = last.name
       /\ delta[s] = <<last.val>>
  /\ \E s \in Subs : share[attached[s]].buf = <<last.val, last.val>>

\* ---- C11 as claimed: stateValue(name, undefined) is rejected, the caller
\* gets an error outcome. (The call is the one StateValueRead models: it
\* returns what Map.get returns and raises nothing.)
C11_UndefinedWriteRejected ==
  last.op = "get" => last.threw

\* ---- C12: in every reachable state no name of the Map is mapped to
\* undefined: hasStateValue(name) is true exactly when stateValue(name) gives
\* a value other than undefined, and what the two calls return agrees with it.
C12_NoUndefinedStored ==
  /\ \A n \in Names : HasStateValue(store, n) <=> MapGet(store, n) # Undefined
  /\ \A n \in DOMAIN store : store[n] \in Values
  /\ last.op = "has" => (last.flag <=> MapGet(store, last.name) # Undefined)
  /\ last.op = "get" => (last.ret # Undefined <=> HasStateValue(store, last.name))

C12_Witness ==
  /\ last.op = "stream" /\ last.val = Undefined /\ last.d # NoStream
  /\ ~HasStateValue(store, last.name)
  /\ HasStateValue(store, OtherName(last.name))
  /\ closed

\* ---- C15 as claimed: the destroy callback completes every subscriber that
\* is attached when it runs, and from the step that clears the Map on no
\* subscriber is delivered a value.
C15_TeardownCompletesQuietly ==
  /\ last.op = "destroy" => \A s \in Subs : attached[s] = NoStream
  /\ closed => \A s \in Subs : delta[s] = <<>>

\* ---- C16: stateValue$(name, {initialValue: v}) with the name absent acts
\* as stateValue(name, v) at the call: the Map holds v, every subscriber
\* attached to another observable of the name has received v and nobody else
\* anything, and the returned observable is not yet listening and has no
\* subscriber (first conjunct). The first subscriber of an observable whose
\* name is present receives the value held exactly once (second conjunct).
C16_Step ==
  /\ \A n \in Names :
       last'.op = "stream" /\ last'.name = n /\ last'.val # Undefined
         /\ ~HasStateValue(store, n)
         => /\ HasStateValue(store', n)
            /\ MapGet(store', n) = last'.val
            /\ \A m \in Names \ {n} : MapGet(store', m) = MapGet(store, m)
            /\ \A s \in Subs :
                 delta'[s] = IF attached[s] # NoStream
                                /\ streams[attached[s]].name = n
                               THEN <<last'.val>> ELSE <<>>
            /\ attached' = attached
            /\ last'.d # NoStream
                 => /\ share'[last'.d] = FreshShare
                    /\ last'.d \notin observers'
  /\ last'.op = "subscribe" /\ ~share[last'.d].subject
       /\ HasStateValue(store, last'.name)
       => delta'[last'.s] = <<MapGet(store, last'.name)>>

C16_SeedActsAsSetAtCall == [][C16_Step]_vars

C16_Witness ==
  /\ last.op = "stream" /\ last.val # Undefined /\ last.d # NoStream
  /\ MapGet(store, last.name) = last.val
  /\ ~closed
  /\ \E s \in Subs :
       /\ attached[s] # NoStream
       /\ streams[attached[s]].name = last.name
       /\ delta[s] = <<last.val>>

\* ---- C17: before the service is destroyed an observable is subscribed to
\* the Subject exactly while it has a subscriber, and its reference count is
\* the number of its subscribers (C17_RefCounted); an unsubscribe leaves every
\* other observable, its buffer, its connection and its subscribers as they
\* were and delivers nothing (C17_Independent).
C17_RefCounted ==
  ~closed =>
    \A d \in DOMAIN streams :
      /\ d \in observers <=> SubscribersOf(d) # {}
      /\ share[d].connection <=> SubscribersOf(d) # {}
      /\ share[d].refCount = Cardinality(SubscribersOf(d))

C17_Independent ==
  last'.op = "unsubscribe" =>
    /\ \A e \in DOMAIN streams \ {last'.d} :
         /\ share'[e] = share[e]
         /\ e \in observers' <=> e \in observers
         /\ streams'[e] = streams[e]
    /\ \A s \in Subs \ {last'.s} : attached'[s] = attached[s]
    /\ delta' = NoDelivery
    /\ store' = store

C17_OneConnectionPerStream == []C17_RefCounted /\ [][C17_Independent]_vars

C17_Witness ==
  /\ last.op = "unsubscribe" /\ ~closed
  /\ SubscribersOf(last.d) = {}
  /\ last.d \notin observers
  /\ \E e \in DOMAIN streams \ {last.d} :
       /\ streams[e].name = last.name
       /\ SubscribersOf(e) # {}
       /\ e \in observers
       /\ share[e].buf # <<>>

\* ---- C18: a stateValue(m, v), removeStateValue(m) or stateValue$(m, opts)
\* leaves every other name n as it is in the Map and delivers nothing to the
\* subscribers of the observables of n, whose buffers stay as they are
\* (C18_OtherKey); stateValue(name), hasStateValue(name) and
\* stateValueOnce$(name) change no entry and emit nothing (C18_Reads);
\* removeStateValue(name) of an absent name changes nothing (C18_RemoveAbsent).
C18_OtherKey ==
  \A n \in Names :
    last'.op \in {"set", "remove", "stream"} /\ last'.name # n
      => /\ MapGet(store', n) = MapGet(store, n)
         /\ HasStateValue(store', n) <=> HasStateValue(store, n)
         /\ \A d \in DOMAIN streams :
              streams[d].name = n
                => /\ share'[d] = share[d]
                   /\ \A s \in SubscribersOf(d) : delta'[s] = <<>>

C18_Reads ==
  last'.op \in {"get", "has", "once"}
    => /\ store' = store
       /\ share' = share
       /\ delta' = NoDelivery
       /\ done' = {}

C18_RemoveAbsent ==
  last'.op = "remove" /\ ~HasStateValue(store, last'.name)
    => /\ store' = store
       /\ share' = share
       /\ delta' = NoDelivery
       /\ done' = {}
       /\ UNCHANGED <<closed, observers, streams, attached>>

C18_KeyIsolation == [][C18_OtherKey /\ C18_Reads /\ C18_RemoveAbsent]_vars

C18_Witness ==
  /\ last.op = "set" /\ ~closed
  /\ HasStateValue(store, OtherName(last.name))
  /\ \E s \in Subs :
       /\ attached[s] # NoStream
       /\ streams[attached[s]].name = OtherName(last.name)
       /\ share[attached[s]].buf # <<>>
       /\ delta[s] = <<>>

\* ---- C20: a destroy callback that runs when the Subject is already closed
\* leaves the Map empty and the Subject closed, delivers nothing, completes
\* nobody, raises nothing and changes no observable (C20_Again); when it runs
\* right after the first one, the Map is as the first one left it.
C20_Again ==
  closed /\ last'.op = "destroy"
    => /\ last'.flag /\ ~last'.threw
       /\ closed'
       /\ store' = EmptyMap
       /\ delta' = NoDelivery
       /\ done' = {}
       /\ UNCHANGED <<observers, streams, share, attached>>
       /\ last.op = "destroy" => store' = store

C20_TeardownIdempotent == [][C20_Again]_vars

C20_Witness ==
  /\ last.op = "destroy" /\ last.flag
  /\ closed /\ store = EmptyMap /\ observers = {}
  /\ \E d \in DOMAIN streams : share[d].hasCompleted /\ share[d].buf # <<>>

\* no two neighbours of vals are equal under comparator fn
NoEqualNeighbours(fn, vals) ==
  \A i \in 1..(Len(vals) - 1) : ~Equal(fn, vals[i], vals[i + 1])

\* ---- C13: a subscription of stateValueDistinct$(name) is never handed a
\* value equal, under the observable's comparator, to the one it was handed
\* last (C13_NoRepeat). With the default comparator a stateValue(name, v) with
\* the value (primitive or reference) the subscription was handed last is
\* suppressed, also when the name was removed in between, while a different
\* reference is delivered even when its structure is the same (C13_Default).
C13_NoRepeat ==
  \A s \in Subs :
    LET d == DeliveredOn(s)'
        fn == streams'[d].distinctFn
        p == IF attached[s] # NoStream /\ attached'[s] = attached[s]
               THEN prev[s] ELSE Undefined
    IN  d # NoStream /\ fn \in DistinctFns =>
          /\ NoEqualNeighbours(fn, delta'[s])
          /\ p # Undefined /\ delta'[s] # <<>> => ~Equal(fn, p, delta'[s][1])
          /\ delta'[s] # <<>> => prev'[s] = delta'[s][Len(delta'[s])]
          /\ delta'[s] = <<>> /\ attached'[s] # NoStream => prev'[s] = p

C13_Default ==
  \A s \in Subs :
    last'.op = "set" /\ attached[s] # NoStream
      /\ streams[attached[s]].name = last'.name
      /\ streams[attached[s]].distinctFn = "is"
      => /\ prev[s] = last'.val => delta'[s] = <<>>
         /\ prev[s] # last'.val => delta'[s] = <<last'.val>>
         /\ last.op = "remove" /\ last.name = last'.name /\ prev[s] = last'.val
              => delta'[s] = <<>>

C13_DistinctSuppressesRepeats == [][C13_NoRepeat /\ C13_Default]_vars

C13_Witness ==
  /\ last.op = "set"
  /\ \E s \in Subs :
       /\ attached[s] # NoStream
       /\ streams[attached[s]].name = last.name
       /\ streams[attached[s]].distinctFn = "is"
       /\ share[attached[s]].buf = <<last.val, last.val>>
       /\ prev[s] = last.val
       /\ delta[s] = <<>>

\* ---- C14 as claimed: the one element a subscriber of stateValueOnce$(name)
\* receives is the value the name has when it subscribes.
C14_OnceReadsAtSubscribe ==
  last.op = "onceSubscribe" => last.ret = MapGet(store, last.name)

\* ---- C14, amended: a subscriber of stateValueOnce$(name) receives exactly
\* one element and then the completion, and the element is the value the name
\* had (or undefined) when stateValueOnce$(name) was called: no later write,
\* remove, clear or destroy changes what the observable holds, and the
\* subscription changes and delivers nothing else.
C14_Step ==
  /\ last'.op = "once"
       => once' = [name |-> last'.name, val |-> MapGet(store, last'.name)]
  /\ last'.op # "once" => once' = once
  /\ last'.op = "onceSubscribe"
       => /\ last'.ret = once.val
          /\ last'.name = once.name
          /\ last'.flag
          /\ store' = store
          /\ delta' = NoDelivery

C14_OnceHoldsValueOfCall == [][C14_Step]_vars

C14_Witness ==
  /\ last.op = "onceSubscribe" /\ last.flag
  /\ last.ret = once.val
  /\ last.ret # MapGet(store, last.name)
  /\ HasStateValue(store, last.name)
  /\ last.ret # Undefined

\* ---- C19 as claimed: when a handler calls stateValue(name, v2) as it is
\* handed v1, then once the outer call has returned every subscriber of an
\* observable of the name has been handed the value the Map holds last, and
\* none has been handed v2 and then the older v1.
C19_ReentrantConsistent ==
  last.op = "reenter" =>
    \A s \in Subs :
      attached[s] # NoStream /\ streams[attached[s]].name = last.name
        => /\ delta[s] # <<>>
           /\ delta[s][Len(delta[s])] = MapGet(store, last.name)
           /\ delta[s] # <<MapGet(store, last.name), last.val>>
====
